---- MODULE Spec2Model ----
(***************************************************************************)
(* Delivery-logistics backend (Express handlers over a document store).   *)
(*                                                                         *)
(* The store is a set of collections of documents.  Every `await` of a    *)
(* handler is one store operation and therefore one step of the model;    *)
(* requests run concurrently and interleave at their awaits.              *)
(*                                                                         *)
(* db.runTransaction(fn) is modelled the way the store serialises it: the *)
(* reads of an attempt take a snapshot, the commit applies every write of *)
(* the attempt in one step provided the documents read still hold the     *)
(* snapshot, and otherwise the attempt is discarded and fn runs again, up *)
(* to MaxAttempts attempts.  No document of this program ever returns to  *)
(* an earlier content (counters grow, statuses only advance, documents    *)
(* are not deleted), so comparing contents is the same as comparing       *)
(* document versions.                                                      *)
(***************************************************************************)
EXTENDS Integers, FiniteSets, Sequences, TLC

(* ------------------------------ bounds -------------------------------- *)
NumProcs == 2          \* requests in flight at the same time
MaxDeliv == 1          \* cap of the delivery_seq counter
MaxAssi == 2           \* cap of the assi_seq counter
MaxAttempts == 2       \* attempts of one runTransaction call
MaxUser == 3           \* cap of the user_seq counter

Procs == 1..NumProcs
DeliveryIds == 1..MaxDeliv
AssiIds == 1..MaxAssi

(* ----------------------------- input sets ----------------------------- *)
\* 0 stands for a missing / falsy id in a request body.
Null == 0 - 1                    \* null or undefined body field
Riders == {1, 2}
\* Bodies of /delivery/create as <<user_id_sender, user_id_receiver,
\* address_id_sender, address_id_receiver>>: users 1, 2 and addresses 1, 2
\* exist, 3 does not; the first body is complete and valid, each other one
\* has one field missing or one reference unknown.
CreateBodies == {<<1, 2, 1, 2>>, <<0, 2, 1, 2>>, <<3, 2, 1, 2>>, <<1, 3, 1, 2>>,
                 <<1, 2, 3, 2>>, <<1, 2, 1, 3>>}
StatusArgs == {"", "transporting"}   \* body.status of /delivery/create
\* Coordinates are counted in steps of about one metre on a local grid: 13
\* and 14 are one metre apart, 14 and 16 two, 13 and 16 three.
Lats == {13, 14}
Lngs == {100}
LocLats == {13, 14, 16}
\* Bodies of POST /users/addresses as <<user_id, address>>: users 1 and 2
\* exist, 3 does not, 0 and "" are missing fields.
AddressBodies == {<<1, "home">>, <<2, "home">>, <<3, "home">>, <<0, "home">>, <<1, "">>}
\* Bodies of /users/addresses/delete as <<user_id, address_id>>.
AddressDeleteBodies ==
  {<<u, a>> : u \in {1, 2}, a \in {1, 2, 3}} \cup {<<Null, 1>>, <<1, Null>>}
\* Bodies of /register/user as <<name, password, phone>>.
Phones == {"0811", "0812"}
\* Bodies of /register/rider as <<name, password, phone, plate_number,
\* car_type>>.
RiderBodies ==
  {<<"somchai", "secret", ph, "KB1234", "motorcycle">> : ph \in Phones}
    \cup {<<"", "secret", "0811", "KB1234", "motorcycle">>,
          <<"somchai", "secret", "0811", "", "motorcycle">>,
          <<"somchai", "secret", "0811", "KB1234", "">>}
RegisterBodies ==
  {<<"somchai", "secret", ph>> : ph \in Phones}
    \cup {<<"", "secret", "0811">>, <<"somchai", "", "0811">>, <<"somchai", "secret", "">>}
\* Bodies of /rider/location/update as <<rider_id, lat, lng>>.
LocBodies ==
  {<<r, lat, lng>> : r \in Riders, lat \in LocLats, lng \in Lngs}
    \cup {<<0, 13, 100>>, <<1, Null, 100>>, <<1, 13, Null>>}
\* Bodies of /deliveries/accept as <<delivery_id, rider_id, rider_lat,
\* rider_lng>>: the complete ones and one for each way of being incomplete.
AcceptBodies ==
  {<<d, r, lat, lng>> : d \in DeliveryIds, r \in Riders, lat \in Lats, lng \in Lngs}
    \cup {<<0, 1, 13, 100>>, <<1, 0, 13, 100>>, <<1, 1, Null, 100>>, <<1, 1, 13, Null>>}
\* Bodies of /deliveries/update-status-accept as <<delivery_id, rider_id,
\* picture_status2, rider_lat, rider_lng>>.
TransportBodies ==
  {<<d, r, "img2", lat, lng>> : d \in DeliveryIds, r \in Riders, lat \in Lats, lng \in Lngs}
    \cup {<<0, 1, "img2", 13, 100>>, <<1, 0, "img2", 13, 100>>, <<1, 1, "", 13, 100>>,
          <<1, 1, "img2", Null, 100>>, <<1, 1, "img2", 13, Null>>}
\* Bodies of /deliveries/update-status-finish as <<delivery_id,
\* picture_status3, rider_id>>; rider_id is optional.
\* Bodies of /deliveries/accept of src/server.js as <<delivery_id, rider_id>>.
SrvAcceptBodies ==
  {<<d, r>> : d \in DeliveryIds, r \in Riders} \cup {<<0, 1>>, <<1, 0>>}
FinishBodies ==
  {<<d, pic3, r>> : d \in DeliveryIds, pic3 \in {"", "img3"}, r \in {Null} \cup Riders}
    \cup {<<0, "img3", Null>>}

SeqNames == {"delivery_seq", "assi_seq", "user_seq", "address_seq", "rider_seq"}

VARIABLES
  counters,      \* _counters: sequence name -> [exists, value]
  users,         \* user: user_id -> document (phone) of the stored users
  addresses,     \* user_address: address_id -> document (user_id) of the stored addresses
  delivery,      \* delivery: id -> document
  assignment,    \* delivery_assignment: id -> document
  riderLoc,      \* rider_location: rider id -> document
  riderCar,      \* rider_car: rider_id -> document (user_id, plate_number, car_type)
  returned,      \* history: sequence name -> values returned by nextId, in order
                 \* of their commits
  req            \* the request handlers: slot -> position, inputs and locals

vars ==
  <<counters, users, addresses, delivery, assignment, riderLoc, riderCar, returned, req>>

store == <<counters, users, addresses, delivery, assignment, riderLoc, riderCar>>

(* ----------------------------- documents ------------------------------ *)
NoCounter == [exists |-> FALSE, value |-> 0]
NoDelivery ==
  [exists |-> FALSE, status |-> "", address_id_sender |-> 0, address_id_receiver |-> 0]
NoAssign == [exists |-> FALSE, delivery_id |-> 0, rider_id |-> 0, status |-> "",
             picture_status2 |-> "", picture_status3 |-> ""]
NoLoc == [exists |-> FALSE, lat |-> Null, lng |-> Null]
NoSnapA == [id |-> 0, doc |-> NoAssign]
NoBody == <<0, 0, 0, 0>>

IdleReq == [op |-> "idle", pc |-> "idle", seq |-> "", d |-> 0, r |-> 0, lat |-> Null,
            lng |-> Null, pic |-> "", st |-> "", body |-> NoBody,
            id |-> 0, cur |-> NoCounter, snapD |-> NoDelivery, snapA |-> NoSnapA,
            tries |-> 0, code |-> 0, msg |-> "", w |-> FALSE, lo |-> 0, recv |-> Null,
            phone |-> "", ops |-> <<>>, fin |-> FALSE, uid |-> 0, aid |-> 0]

\* res.status(code).json({ error: msg }) before any store operation: the
\* body was rejected, nothing of it is kept.
Reject(op, code, msg) ==
  [IdleReq EXCEPT !.op = op, !.pc = "done", !.code = code, !.msg = msg]

\* The response of a handler that reached the store: the inputs that identify
\* the request stay with the status code and the message.
Respond(q, code, msg) ==
  [IdleReq EXCEPT !.op = q.op, !.pc = "done", !.d = q.d, !.r = q.r, !.w = q.w,
                  !.ops = q.ops, !.fin = q.fin, !.uid = q.uid, !.aid = q.aid,
                  !.body = q.body, !.code = code, !.msg = msg]

RespondWith(q, code, msg, id) ==
  [Respond(q, code, msg) EXCEPT !.id = id]

\* history: the delivery had reached finish when the request arrived (kept
\* in the slot as fin)
Finished(d) == delivery[d].exists /\ delivery[d].status = "finish"

\* a slot takes a new request when it serves none
Free(p) == req[p].pc \in {"idle", "done"}

\* Users 1 and 2 registered earlier, with different phones, and each added
\* one address: user_seq and address_seq stand at 2 and have returned 1 and 2.
SomeUsers == (1 :> [phone |-> "0811"]) @@ (2 :> [phone |-> "0812"])
SomeAddresses == (1 :> [user_id |-> 1]) @@ (2 :> [user_id |-> 2])
\* Where rider_seq stands at 2, both have registered as riders.
SomeRiderCars ==
  (1 :> [user_id |-> 1, plate_number |-> "KB1234", car_type |-> "motorcycle"])
    @@ (2 :> [user_id |-> 2, plate_number |-> "KB5678", car_type |-> "motorcycle"])

Init ==
  /\ counters = [s \in SeqNames |->
                   IF s \in {"user_seq", "address_seq"}
                   THEN [exists |-> TRUE, value |-> 2] ELSE NoCounter]
  /\ users = SomeUsers
  /\ addresses = SomeAddresses
  /\ delivery = [d \in DeliveryIds |-> NoDelivery]
  /\ assignment = [a \in AssiIds |-> NoAssign]
  /\ riderLoc = [r \in Riders |-> NoLoc]
  /\ riderCar = <<>>
  /\ returned = [s \in SeqNames |->
                   IF s \in {"user_seq", "address_seq"} THEN <<1, 2>> ELSE <<>>]
  /\ req = [p \in Procs |-> IdleReq]

\* A fresh deployment: no counter document, no user, no address.
InitFresh ==
  /\ counters = [s \in SeqNames |-> NoCounter]
  /\ users = <<>>
  /\ addresses = <<>>
  /\ delivery = [d \in DeliveryIds |-> NoDelivery]
  /\ assignment = [a \in AssiIds |-> NoAssign]
  /\ riderLoc = [r \in Riders |-> NoLoc]
  /\ riderCar = <<>>
  /\ returned = [s \in SeqNames |-> <<>>]
  /\ req = [p \in Procs |-> IdleReq]

(* ------------------------- nextId(sequence) --------------------------- *)
SeqCap(s) ==
  IF s = "delivery_seq" THEN MaxDeliv ELSE IF s = "assi_seq" THEN MaxAssi ELSE MaxUser

CurrentOfFreshOne(snap) == IF snap.exists THEN snap.value ELSE 1

\* const current = snap.exists ? Number(snap.data().value || 0) : 0
CurrentOf(snap) == IF snap.exists THEN snap.value ELSE 0

\* The counters are capped: a request that will call nextId(s) starts only
\* while the calls made and the calls pending leave a value below the cap.
Pending(s) ==
  {p \in Procs : req[p].seq = s /\ req[p].pc \in {"c_check", "sa_read", "reg_check", "ca_user", "nid_read", "nid_commit"}}
Allocatable(s) == CurrentOf(counters[s]) + Cardinality(Pending(s)) < SeqCap(s)

\* where the caller goes on with the returned value
AfterNextId(op, s) ==
  IF op = "create" THEN "c_write"
  ELSE IF op = "accept" THEN "acc_read"
  ELSE IF op = "srv_accept" THEN "sa_writeA"
  ELSE IF op = "srv_transport" THEN "st_read"
  ELSE IF op = "register" THEN "reg_write"
  ELSE IF op = "register_rider" THEN (IF s = "user_seq" THEN "rr_user" ELSE "rc_write")
  ELSE IF op = "create_address" THEN "ca_write"
  ELSE "done"

\* history: the largest value nextId(s) has returned so far, 0 when none
HighWater(s) ==
  LET vals == {returned[s][i] : i \in 1..Len(returned[s])} \cup {0}
  IN CHOOSE m \in vals : \A v \in vals : v <= m

\* A call of nextId(s) on its own, as createUser, createRiderCar and
\* createAddress make it: the call starts, and its result (id) or its error
\* (msg) is what the slot holds when it is done.  lo remembers the largest
\* value returned before the call started.
StartNextId(p, s) ==
  /\ Free(p)
  /\ Allocatable(s)
  /\ req' = [req EXCEPT ![p] = [IdleReq EXCEPT !.op = "nextId", !.pc = "nid_read",
                                                !.seq = s, !.lo = HighWater(s)]]
  /\ UNCHANGED <<store, returned>>

\* tx.get(ref) of one attempt
NextIdRead(p) ==
  /\ req[p].pc = "nid_read"
  /\ req' = [req EXCEPT ![p].cur = counters[req[p].seq], ![p].pc = "nid_commit"]
  /\ UNCHANGED <<store, returned>>

\* The error of a transaction that ran out of attempts, as the catch block of
\* each handler reports it.  /delivery/create, /register/user, /register/rider
\* and /users/addresses answer e.code || 400, and the store decides whether its
\* error carries a code (10, aborted) or none; the other handlers answer 500
\* for a message they do not know.
InternalErrors(q) ==
  IF q.op \in {"create", "register", "register_rider", "create_address"}
  THEN {Respond(q, 10, "aborted"), Respond(q, 400, "aborted")}
  ELSE {Respond(q, 500, "aborted")}

\* const next = current + 1
NextValue(snap) == CurrentOf(snap) + 1

\* runTransaction isolates the attempt: it commits only if the counter
\* document still is the one the attempt read
NextIdNoIsolation(q) == TRUE

NextIdIsolated(q) == counters[q.seq] = q.cur

\* commit of the attempt: set or update value: next; return next
NextIdCommit(p) ==
  LET q == req[p]
      next == NextValue(q.cur)
  IN /\ q.pc = "nid_commit"
     /\ IF NextIdIsolated(q)
        THEN /\ counters' = [counters EXCEPT ![q.seq] = [exists |-> TRUE, value |-> next]]
             /\ returned' = [returned EXCEPT ![q.seq] = Append(@, next)]
             /\ req' = [req EXCEPT ![p].id = next, ![p].cur = NoCounter, ![p].tries = 0,
                                   ![p].seq = "", ![p].pc = AfterNextId(q.op, q.seq)]
        ELSE /\ UNCHANGED <<counters, returned>>
             /\ IF q.tries + 1 >= MaxAttempts
                THEN \E e \in InternalErrors(q) : req' = [req EXCEPT ![p] = e]
                ELSE req' = [req EXCEPT ![p].tries = q.tries + 1, ![p].cur = NoCounter,
                                        ![p].pc = "nid_read"]
     /\ UNCHANGED <<users, addresses, delivery, assignment, riderLoc, riderCar>>

(* --------------------- POST /delivery/create -------------------------- *)
\* the synchronous prefix of createDelivery: the required-field check
StartCreate(p, body, st) ==
  /\ Free(p)
  /\ IF body[1] = 0 \/ body[2] = 0 \/ body[3] = 0 \/ body[4] = 0
     THEN req' = [req EXCEPT ![p] = Reject("create", 400, "ids are required")]
     ELSE /\ Allocatable("delivery_seq")
          /\ req' = [req EXCEPT ![p] = [IdleReq EXCEPT !.op = "create", !.pc = "c_check",
                                           !.seq = "delivery_seq", !.body = body, !.st = st]]
  /\ UNCHANGED <<store, returned>>

\* !addrSender.exists || !addrReceiver.exists throws
AddressSenderExists(b) == b[3] \in DOMAIN addresses

AddressesExist(b) == b[3] \in DOMAIN addresses /\ b[4] \in DOMAIN addresses

\* The four reads: sender, receiver, both addresses.  No handler writes a
\* user that these bodies name, and an address id, once deleted, is never
\* stored again (ids come from address_seq), so what the four reads return
\* one after the other is what they would return together at the first or
\* at the last of them: they are taken as one step.
CreateCheck(p) ==
  LET q == req[p]
  IN /\ q.pc = "c_check"
     /\ IF q.body[1] \notin DOMAIN users
        THEN req' = [req EXCEPT ![p] = Respond(q, 404, "sender not found")]
        ELSE IF q.body[2] \notin DOMAIN users
        THEN req' = [req EXCEPT ![p] = Respond(q, 404, "receiver not found")]
        ELSE IF ~AddressesExist(q.body)
        THEN req' = [req EXCEPT ![p] =
                       Respond(q, 404, "address sender or receiver not found")]
        ELSE req' = [req EXCEPT ![p].pc = "nid_read"]
     /\ UNCHANGED <<store, returned>>

\* status: status ? String(status) : "waiting"
InitialStatus(st) == IF st # "" THEN st ELSE "waiting"

\* db.collection(DELIVERY_COL).doc(docId).set(payload)
CreateWrite(p) ==
  LET q == req[p]
  IN /\ q.pc = "c_write"
     /\ delivery' = [delivery EXCEPT ![q.id] =
                       [exists |-> TRUE, status |-> InitialStatus(q.st),
                        address_id_sender |-> q.body[3],
                        address_id_receiver |-> q.body[4]]]
     /\ req' = [req EXCEPT ![p] = [RespondWith(q, 201, "ok", q.id) EXCEPT !.d = q.id]]
     /\ UNCHANGED <<counters, users, addresses, assignment, riderLoc, riderCar, returned>>

(* --------------------- POST /deliveries/accept ------------------------ *)
StartAccept(p, d, r, lat, lng) ==
  /\ Free(p)
  /\ IF d = 0 \/ r = 0
     THEN req' = [req EXCEPT ![p] = Reject("accept", 400, "delivery_id, rider_id are required")]
     ELSE IF lat = Null \/ lng = Null
     THEN req' = [req EXCEPT ![p] =
                    Reject("accept", 400, "rider_lat, rider_lng are required on accept")]
     ELSE /\ Allocatable("assi_seq")
          /\ req' = [req EXCEPT ![p] =
                       [IdleReq EXCEPT !.op = "accept", !.pc = "nid_read", !.seq = "assi_seq",
                                       !.d = d, !.r = r, !.lat = lat, !.lng = lng,
                                       !.w = (delivery[d].exists /\ delivery[d].status = "waiting"),
                                       !.fin = Finished(d)]]
  /\ UNCHANGED <<store, returned>>

\* const code = /not found|required|progress/i.test(msg) ? 400 : 500
AcceptErrorCode(msg) ==
  IF msg \in {"delivery not found", "Delivery already accepted or in progress"}
  THEN 400 ELSE 500

\* d.status !== "waiting" throws
IsNotActive(d) == d.status \notin {"accept", "transporting"}

IsWaitingOrAccept(d) == d.status \in {"waiting", "accept"}

IsWaiting(d) == d.status = "waiting"

\* const dSnap = await tx.get(deliveryRef), and the two checks on it
AcceptRead(p) ==
  LET q == req[p]
      dSnap == delivery[q.d]
  IN /\ q.pc = "acc_read"
     /\ IF ~dSnap.exists
        THEN req' = [req EXCEPT ![p] =
                       Respond(q, AcceptErrorCode("delivery not found"), "delivery not found")]
        ELSE IF ~IsWaiting(dSnap)
        THEN req' = [req EXCEPT ![p] =
                       Respond(q, AcceptErrorCode("Delivery already accepted or in progress"),
                               "Delivery already accepted or in progress")]
        ELSE req' = [req EXCEPT ![p].snapD = dSnap, ![p].pc = "acc_commit"]
     /\ UNCHANGED <<store, returned>>

AcceptWritesNoLocation(q) ==
  /\ assignment' = [assignment EXCEPT ![q.id] =
                      [exists |-> TRUE, delivery_id |-> q.d, rider_id |-> q.r,
                       status |-> "accept", picture_status2 |-> "", picture_status3 |-> ""]]
  /\ delivery' = [delivery EXCEPT ![q.d].status = "accept"]
  /\ riderLoc' = riderLoc

\* the three writes of the transaction
AcceptWrites(q) ==
  /\ assignment' = [assignment EXCEPT ![q.id] =
                      [exists |-> TRUE, delivery_id |-> q.d, rider_id |-> q.r,
                       status |-> "accept", picture_status2 |-> "", picture_status3 |-> ""]]
  /\ delivery' = [delivery EXCEPT ![q.d].status = "accept"]
  /\ riderLoc' = [riderLoc EXCEPT ![q.r] = [exists |-> TRUE, lat |-> q.lat, lng |-> q.lng]]

AcceptNoIsolation(q) == TRUE

\* the transaction commits only if the delivery still is the one it read
AcceptIsolated(q) == delivery[q.d] = q.snapD

AcceptCommit(p) ==
  LET q == req[p]
  IN /\ q.pc = "acc_commit"
     /\ IF AcceptIsolated(q)
        THEN /\ AcceptWrites(q)
             /\ req' = [req EXCEPT ![p] = RespondWith(q, 200, "ok", q.id)]
        ELSE /\ UNCHANGED <<delivery, assignment, riderLoc>>
             /\ IF q.tries + 1 >= MaxAttempts
                THEN \E e \in InternalErrors(q) : req' = [req EXCEPT ![p] = e]
                ELSE req' = [req EXCEPT ![p].tries = q.tries + 1, ![p].snapD = NoDelivery,
                                        ![p].pc = "acc_read"]
     /\ UNCHANGED <<counters, users, addresses, riderCar, returned>>

(* ---------------- POST /deliveries/update-status-accept ---------------- *)
StartTransport(p, d, r, pic, lat, lng) ==
  /\ Free(p)
  /\ IF d = 0 \/ r = 0 \/ pic = ""
     THEN req' = [req EXCEPT ![p] =
                    Reject("transport", 400, "delivery_id, rider_id, picture_status2 are required")]
     ELSE IF lat = Null \/ lng = Null
     THEN req' = [req EXCEPT ![p] = Reject("transport", 400, "rider_lat, rider_lng are required")]
     ELSE req' = [req EXCEPT ![p] =
                    [IdleReq EXCEPT !.op = "transport", !.pc = "tr_read", !.d = d, !.r = r,
                                    !.pic = pic, !.lat = lat, !.lng = lng,
                                    !.fin = Finished(d)]]
  /\ UNCHANGED <<store, returned>>

\* const code = /not found|accept|required/i.test(msg) ? 400 : 500
TransportErrorCode(msg) ==
  IF msg \in {"delivery not found", "assignment not found for this delivery/rider",
              "Assignment must be in 'accept' to set transporting"}
  THEN 400 ELSE 500

\* smallest element of a non-empty set of ids: a query returns its documents
\* in the order of their ids
MinId(S) == CHOOSE a \in S : \A b \in S : a <= b

\* .where("delivery_id", "==", d).where("rider_id", "==", r).limit(1)
AssignQuery(d, r) ==
  LET hits == {a \in AssiIds : /\ assignment[a].exists
                               /\ assignment[a].delivery_id = d
                               /\ assignment[a].rider_id = r}
  IN IF hits = {} THEN NoSnapA ELSE [id |-> MinId(hits), doc |-> assignment[MinId(hits)]]

\* a.status !== "accept" throws
InAcceptOrTransporting(a) == a.status \in {"accept", "transporting"}

InAccept(a) == a.status = "accept"

\* the request after the attempt has issued the store operations o, in
\* order ("get" for tx.get, "write" for tx.update and tx.set)
Issuing(q, o) == [q EXCEPT !.ops = q.ops \o o]

\* the reads of one attempt (the delivery, then the query) and the checks on
\* them.  A delivery that exists at the first read exists at the second, so
\* the two reads are taken at the instant of the second.
TransportRead(p) ==
  LET q == req[p]
      dSnap == delivery[q.d]
      aSnap == AssignQuery(q.d, q.r)
      got == Issuing(q, <<"get", "get">>)
  IN /\ q.pc = "tr_read"
     /\ IF ~dSnap.exists
        THEN req' = [req EXCEPT ![p] =
                       Respond(Issuing(q, <<"get">>),
                               TransportErrorCode("delivery not found"), "delivery not found")]
        ELSE IF aSnap.id = 0
        THEN req' = [req EXCEPT ![p] =
                       Respond(got, TransportErrorCode("assignment not found for this delivery/rider"),
                               "assignment not found for this delivery/rider")]
        ELSE IF ~InAccept(aSnap.doc)
        THEN req' = [req EXCEPT ![p] =
                       Respond(got, TransportErrorCode("Assignment must be in 'accept' to set transporting"),
                               "Assignment must be in 'accept' to set transporting")]
        ELSE req' = [req EXCEPT ![p] = [got EXCEPT !.snapD = dSnap, !.snapA = aSnap,
                                                   !.pc = "tr_commit"]]
     /\ UNCHANGED <<store, returned>>

\* finalPic2 = picture_status2 || a.picture_status2 || null
FinalPic2(pic, a) == IF pic # "" THEN pic ELSE a.picture_status2

TransportWritesNoDelivery(q) ==
  /\ assignment' = [assignment EXCEPT ![q.snapA.id].status = "transporting",
                                      ![q.snapA.id].picture_status2 = FinalPic2(q.pic, q.snapA.doc)]
  /\ delivery' = delivery
  /\ riderLoc' = [riderLoc EXCEPT ![q.r] = [exists |-> TRUE, lat |-> q.lat, lng |-> q.lng]]

\* the three writes of the transaction
TransportWrites(q) ==
  /\ assignment' = [assignment EXCEPT ![q.snapA.id].status = "transporting",
                                      ![q.snapA.id].picture_status2 = FinalPic2(q.pic, q.snapA.doc)]
  /\ delivery' = [delivery EXCEPT ![q.d].status = "transporting"]
  /\ riderLoc' = [riderLoc EXCEPT ![q.r] = [exists |-> TRUE, lat |-> q.lat, lng |-> q.lng]]

\* the transaction commits only if the delivery and the result of the query
\* still are the ones it read
TransportIsolated(q) == delivery[q.d] = q.snapD /\ AssignQuery(q.d, q.r) = q.snapA

TransportCommit(p) ==
  LET q == req[p]
  IN /\ q.pc = "tr_commit"
     /\ IF TransportIsolated(q)
        THEN /\ TransportWrites(q)
             /\ req' = [req EXCEPT ![p] =
                          RespondWith(Issuing(q, <<"write", "write", "write">>),
                                      200, "ok", q.snapA.id)]
        ELSE /\ UNCHANGED <<delivery, assignment, riderLoc>>
             /\ IF q.tries + 1 >= MaxAttempts
                THEN \E e \in InternalErrors(q) : req' = [req EXCEPT ![p] = e]
                ELSE req' = [req EXCEPT ![p].tries = q.tries + 1, ![p].snapD = NoDelivery,
                                        ![p].snapA = NoSnapA, ![p].ops = <<>>,
                                        ![p].pc = "tr_read"]
     /\ UNCHANGED <<counters, users, addresses, riderCar, returned>>

(* ------ POST /deliveries/update-status-accept, src/unnamed/part_002 ----- *)
\* The same validation, reads and checks as in part_004; the transaction then
\* updates the assignment and reads it back before its other writes.
StartTransport002(p, d, r, pic, lat, lng) ==
  /\ Free(p)
  /\ IF d = 0 \/ r = 0 \/ pic = ""
     THEN req' = [req EXCEPT ![p] =
                    Reject("transport002", 400,
                           "delivery_id, rider_id, picture_status2 are required")]
     ELSE IF lat = Null \/ lng = Null
     THEN req' = [req EXCEPT ![p] = Reject("transport002", 400, "rider_lat, rider_lng are required")]
     ELSE req' = [req EXCEPT ![p] =
                    [IdleReq EXCEPT !.op = "transport002", !.pc = "tr2_read", !.d = d, !.r = r,
                                    !.pic = pic, !.lat = lat, !.lng = lng]]
  /\ UNCHANGED <<store, returned>>

TransportRead002(p) ==
  LET q == req[p]
      dSnap == delivery[q.d]
      aSnap == AssignQuery(q.d, q.r)
      got == Issuing(q, <<"get", "get">>)
  IN /\ q.pc = "tr2_read"
     /\ IF ~dSnap.exists
        THEN req' = [req EXCEPT ![p] =
                       Respond(Issuing(q, <<"get">>),
                               TransportErrorCode("delivery not found"), "delivery not found")]
        ELSE IF aSnap.id = 0
        THEN req' = [req EXCEPT ![p] =
                       Respond(got, TransportErrorCode("assignment not found for this delivery/rider"),
                               "assignment not found for this delivery/rider")]
        ELSE IF ~InAccept(aSnap.doc)
        THEN req' = [req EXCEPT ![p] =
                       Respond(got, TransportErrorCode("Assignment must be in 'accept' to set transporting"),
                               "Assignment must be in 'accept' to set transporting")]
        ELSE req' = [req EXCEPT ![p] = [got EXCEPT !.snapD = dSnap, !.snapA = aSnap,
                                                   !.pc = "tr2_reread"]]
     /\ UNCHANGED <<store, returned>>

\* the error of tx.get() when the transaction has buffered a write
ReadAfterWrite == "Firestore transactions require all reads to be executed before all writes."

\* tx.update(aDoc.ref, ...) and then const aAfter = await tx.get(aDoc.ref):
\* the store refuses a read once the transaction holds a write, the
\* transaction function throws, nothing is committed and the catch block
\* answers with the code its expression gives the message.
TransportReread002(p) ==
  LET q == req[p]
  IN /\ q.pc = "tr2_reread"
     /\ req' = [req EXCEPT ![p] =
                  Respond(Issuing(q, <<"write", "get">>),
                          TransportErrorCode(ReadAfterWrite), ReadAfterWrite)]
     /\ UNCHANGED <<store, returned>>

(* ------------- POST /deliveries/accept of src/server.js --------------- *)
\* This handler uses no transaction: a read of the delivery, nextId, the
\* write of the assignment and the update of the delivery are four store
\* operations of their own.
StartSrvAccept(p, d, r) ==
  /\ Free(p)
  /\ IF d = 0 \/ r = 0
     THEN req' = [req EXCEPT ![p] = Reject("srv_accept", 400, "delivery_id, rider_id, are required")]
     ELSE /\ Allocatable("assi_seq")
          /\ req' = [req EXCEPT ![p] =
                       [IdleReq EXCEPT !.op = "srv_accept", !.pc = "sa_read", !.seq = "assi_seq",
                                       !.d = d, !.r = r,
                                       !.w = (delivery[d].exists /\ delivery[d].status = "waiting")]]
  /\ UNCHANGED <<store, returned>>

\* const deliveryDoc = await deliveryRef.get(), and the two checks on it
SrvAcceptRead(p) ==
  LET q == req[p]
      deliveryDoc == delivery[q.d]
  IN /\ q.pc = "sa_read"
     /\ IF ~deliveryDoc.exists
        THEN req' = [req EXCEPT ![p] = Respond(q, 404, "delivery not found")]
        ELSE IF deliveryDoc.status # "waiting"
        THEN req' = [req EXCEPT ![p] =
                       Respond(q, 400, "Delivery already accepted or in progress")]
        ELSE req' = [req EXCEPT ![p].pc = "nid_read"]
     /\ UNCHANGED <<store, returned>>

\* await db.collection(ASSIGN_COL).doc(assiId).set(payload)
SrvAcceptWriteAssignment(p) ==
  LET q == req[p]
  IN /\ q.pc = "sa_writeA"
     /\ assignment' = [assignment EXCEPT ![q.id] =
                         [exists |-> TRUE, delivery_id |-> q.d, rider_id |-> q.r,
                          status |-> "accept", picture_status2 |-> "", picture_status3 |-> ""]]
     /\ req' = [req EXCEPT ![p].pc = "sa_updD"]
     /\ UNCHANGED <<counters, users, addresses, delivery, riderLoc, riderCar, returned>>

\* await deliveryRef.update({ status: "accept", updatedAt })
SrvAcceptUpdateDelivery(p) ==
  LET q == req[p]
  IN /\ q.pc = "sa_updD"
     /\ delivery' = [delivery EXCEPT ![q.d].status = "accept"]
     /\ req' = [req EXCEPT ![p] = RespondWith(q, 200, "ok", q.id)]
     /\ UNCHANGED <<counters, users, addresses, assignment, riderLoc, riderCar, returned>>

(* -------- POST /deliveries/update-status-accept of src/server.js -------- *)
\* nextId("assi_seq") is called before the transaction, for every request
\* that passes the check of its body.
StartSrvTransport(p, d, r, pic, lat, lng) ==
  /\ Free(p)
  /\ IF d = 0 \/ r = 0 \/ pic = ""
     THEN req' = [req EXCEPT ![p] =
                    Reject("srv_transport", 400, "delivery_id, rider_id, picture_status2 are required")]
     ELSE IF lat = Null \/ lng = Null
     THEN req' = [req EXCEPT ![p] = Reject("srv_transport", 400, "rider_lat, rider_lng are required")]
     ELSE /\ Allocatable("assi_seq")
          /\ req' = [req EXCEPT ![p] =
                       [IdleReq EXCEPT !.op = "srv_transport", !.pc = "nid_read",
                                       !.seq = "assi_seq", !.d = d, !.r = r, !.pic = pic,
                                       !.lat = lat, !.lng = lng]]
  /\ UNCHANGED <<store, returned>>

\* ["transporting", "finish", "cancel"].includes(d.status) throws
AlreadyInProgress(d) == d.status \in {"transporting", "finish", "cancel"}

\* The reads of one attempt (the delivery, then the query) and the checks on
\* them; every error thrown in the transaction is answered 500.
SrvTransportRead(p) ==
  LET q == req[p]
      dSnap == delivery[q.d]
      aSnap == AssignQuery(q.d, q.r)
  IN /\ q.pc = "st_read"
     /\ IF ~dSnap.exists
        THEN req' = [req EXCEPT ![p] = Respond(q, 500, "delivery not found")]
        ELSE IF AlreadyInProgress(dSnap)
        THEN req' = [req EXCEPT ![p] =
                       Respond(q, 500, "Delivery already in progress or finished")]
        ELSE IF aSnap.id # 0 /\ aSnap.doc.status # "accept"
        THEN req' = [req EXCEPT ![p] = Respond(q, 500, "Assignment isn't in 'accept' state")]
        ELSE req' = [req EXCEPT ![p].snapD = dSnap, ![p].snapA = aSnap, ![p].pc = "st_commit"]
     /\ UNCHANGED <<store, returned>>

\* The writes of the transaction: the assignment found is updated, or a new
\* one is set under the prepared id; then the delivery and the location.
SrvTransportWrites(q) ==
  /\ IF q.snapA.id # 0
     THEN assignment' =
            [assignment EXCEPT ![q.snapA.id].status = "transporting",
                               ![q.snapA.id].picture_status2 = FinalPic2(q.pic, q.snapA.doc)]
     ELSE assignment' =
            [assignment EXCEPT ![q.id] =
               [exists |-> TRUE, delivery_id |-> q.d, rider_id |-> q.r,
                status |-> "transporting", picture_status2 |-> q.pic, picture_status3 |-> ""]]
  /\ delivery' = [delivery EXCEPT ![q.d].status = "transporting"]
  /\ riderLoc' = [riderLoc EXCEPT ![q.r] = [exists |-> TRUE, lat |-> q.lat, lng |-> q.lng]]

SrvTransportCommit(p) ==
  LET q == req[p]
  IN /\ q.pc = "st_commit"
     /\ IF TransportIsolated(q)
        THEN /\ SrvTransportWrites(q)
             /\ req' = [req EXCEPT ![p] =
                          RespondWith(q, 200, "ok", IF q.snapA.id # 0 THEN q.snapA.id ELSE q.id)]
        ELSE /\ UNCHANGED <<delivery, assignment, riderLoc>>
             /\ IF q.tries + 1 >= MaxAttempts
                THEN \E e \in InternalErrors(q) : req' = [req EXCEPT ![p] = e]
                ELSE req' = [req EXCEPT ![p].tries = q.tries + 1, ![p].snapD = NoDelivery,
                                        ![p].snapA = NoSnapA, ![p].pc = "st_read"]
     /\ UNCHANGED <<counters, users, addresses, riderCar, returned>>

(* --------------------- POST /rider/location/update --------------------- *)
\* The handler of src/server.js and src/unnamed/part_004: a read of the
\* rider's location document (for its rider_location_id only) and a set.
StartLocUpdate(p, r, lat, lng) ==
  /\ Free(p)
  /\ IF r = 0 \/ lat = Null \/ lng = Null
     THEN req' = [req EXCEPT ![p] = Reject("loc", 400, "rider_id, lat, lng are required")]
     ELSE req' = [req EXCEPT ![p] = [IdleReq EXCEPT !.op = "loc", !.pc = "loc_read",
                                                   !.r = r, !.lat = lat, !.lng = lng]]
  /\ UNCHANGED <<store, returned>>

\* const snap = await docRef.get()
LocRead(p) ==
  /\ req[p].pc = "loc_read"
  /\ req' = [req EXCEPT ![p].pc = "loc_write"]
  /\ UNCHANGED <<store, returned>>

\* await docRef.set(payload, { merge: true }); res.json({ ok, updated: true })
LocWrite(p) ==
  LET q == req[p]
  IN /\ q.pc = "loc_write"
     /\ riderLoc' = [riderLoc EXCEPT ![q.r] = [exists |-> TRUE, lat |-> q.lat, lng |-> q.lng]]
     /\ req' = [req EXCEPT ![p] = Respond(q, 200, "updated")]
     /\ UNCHANGED <<counters, users, addresses, delivery, assignment, riderCar, returned>>

(* -------------------- GET /riders/overview/:riderId -------------------- *)
\* Four reads, each a store operation of its own: the rider's location, the
\* rider's assignments, the delivery of the chosen assignment, the address
\* of its receiver.  The answer carries the rider's position (lat, lng), the
\* delivery id (d) and the receiver's position, which is the position stored
\* with an address and is written here as that address (recv); Null is null.
OverviewAnswer(q, d, recv) ==
  [IdleReq EXCEPT !.op = q.op, !.pc = "done", !.r = q.r, !.code = 200, !.msg = "ok",
                  !.lat = q.lat, !.lng = q.lng, !.d = d, !.recv = recv]

StartOverview(p, r) ==
  /\ Free(p)
  /\ req' = [req EXCEPT ![p] = [IdleReq EXCEPT !.op = "overview", !.pc = "ov_loc", !.r = r]]
  /\ UNCHANGED <<store, returned>>

\* const locSnap = await db.collection(RIDER_LOC_COL).doc(riderIdStr).get()
OvReadLocation(p) ==
  LET q == req[p]
      locSnap == riderLoc[q.r]
  IN /\ q.pc = "ov_loc"
     /\ IF ~locSnap.exists
        THEN req' = [req EXCEPT ![p] = Respond(q, 404, "rider location not found")]
        ELSE req' = [req EXCEPT ![p].lat = locSnap.lat, ![p].lng = locSnap.lng,
                                ![p].pc = IF q.op = "srv_overview" THEN "sov_query"
                                          ELSE "ov_query"]
     /\ UNCHANGED <<store, returned>>

\* .where("rider_id", "==", riderIdNum).get()
AssignsOfRider(r) ==
  {a \in DOMAIN assignment : assignment[a].exists /\ assignment[a].rider_id = r}

FirstActive(S) ==
  LET act == {a \in S : assignment[a].status \in {"accept", "transporting"}}
  IN IF act = {} THEN 0 ELSE MinId(act)

\* The forEach over the documents: of those in accept or transporting, the
\* one no other exceeds in assi_id stays in latest; 0 when there is none.
LatestActive(S) ==
  LET act == {a \in S : assignment[a].status \in {"accept", "transporting"}}
  IN IF act = {} THEN 0 ELSE CHOOSE a \in act : \A b \in act : b <= a

OvQuery(p) ==
  LET q == req[p]
      latest == LatestActive(AssignsOfRider(q.r))
  IN /\ q.pc = "ov_query"
     /\ IF latest = 0
        THEN req' = [req EXCEPT ![p] = OverviewAnswer(q, Null, Null)]
        ELSE req' = [req EXCEPT ![p].d = assignment[latest].delivery_id, ![p].pc = "ov_get"]
     /\ UNCHANGED <<store, returned>>

\* const dSnap = await db.collection(DELIVERY_COL).doc(String(deliveryId)).get()
OvGetDelivery(p) ==
  LET q == req[p]
      dSnap == delivery[q.d]
  IN /\ q.pc = "ov_get"
     /\ IF ~dSnap.exists
        THEN req' = [req EXCEPT ![p] = OverviewAnswer(q, q.d, Null)]
        ELSE IF dSnap.address_id_receiver = 0
        THEN req' = [req EXCEPT ![p] = OverviewAnswer(q, q.d, Null)]
        ELSE req' = [req EXCEPT ![p].recv = dSnap.address_id_receiver, ![p].pc = "ov_addr"]
     /\ UNCHANGED <<store, returned>>

\* const addrSnap = await db.collection(ADDR_COL).doc(addrRecvId).get()
OvGetAddress(p) ==
  LET q == req[p]
  IN /\ q.pc = "ov_addr"
     /\ req' = [req EXCEPT ![p] =
                  OverviewAnswer(q, q.d, IF q.recv \in DOMAIN addresses THEN q.recv ELSE Null)]
     /\ UNCHANGED <<store, returned>>

(* ------------- GET /riders/overview/:riderId of src/server.js ---------- *)
\* The same reads as in part_004 (location, delivery, address); the
\* assignments query is ordered and limited.
StartSrvOverview(p, r) ==
  /\ Free(p)
  /\ req' = [req EXCEPT ![p] = [IdleReq EXCEPT !.op = "srv_overview", !.pc = "ov_loc", !.r = r]]
  /\ UNCHANGED <<store, returned>>

OverviewLimit == 5

\* .orderBy("assi_id", "desc").limit(5): the documents of S that fewer than
\* five others of S exceed in assi_id
NewestOf(S) == {a \in S : Cardinality({b \in S : b > a}) < OverviewLimit}

\* for (const d of asgSnap.docs): the first document, in descending order of
\* assi_id, whose status is transporting or accept; 0 when there is none
FirstActiveOfNewest(S) == LatestActive(NewestOf(S))

SrvOvQuery(p) ==
  LET q == req[p]
      first == FirstActiveOfNewest(AssignsOfRider(q.r))
  IN /\ q.pc = "sov_query"
     /\ IF first = 0
        THEN req' = [req EXCEPT ![p] = OverviewAnswer(q, Null, Null)]
        ELSE req' = [req EXCEPT ![p].d = assignment[first].delivery_id, ![p].pc = "ov_get"]
     /\ UNCHANGED <<store, returned>>

(* ---------------- POST /deliveries/update-status-finish ---------------- *)
\* The handler is not transactional: a query, a read and two updates, each its
\* own store operation.  Both files that carry the transactional accept have
\* it with these steps.
StartFinishUnchecked(p, d, pic3, r) ==
  /\ Free(p)
  /\ req' = [req EXCEPT ![p] =
               [IdleReq EXCEPT !.op = "finish", !.pc = "fin_query", !.d = d, !.r = r,
                               !.pic = pic3]]
  /\ UNCHANGED <<store, returned>>

StartFinish(p, d, pic3, r) ==
  /\ Free(p)
  /\ IF d = 0
     THEN req' = [req EXCEPT ![p] = Reject("finish", 400, "delivery_id is required")]
     ELSE req' = [req EXCEPT ![p] =
                    [IdleReq EXCEPT !.op = "finish", !.pc = "fin_query", !.d = d, !.r = r,
                                    !.pic = pic3, !.fin = Finished(d)]]
  /\ UNCHANGED <<store, returned>>

\* .where("delivery_id", "==", Number(delivery_id)).get()
AssignsOf(d) == {a \in AssiIds : assignment[a].exists /\ assignment[a].delivery_id = d}

FindUnfinished(S) ==
  LET hits == {a \in S : assignment[a].status # "finish"}
  IN IF hits = {} THEN 0 ELSE MinId(hits)

\* assignSnap.docs.find(d => d.data()?.status === "transporting"); 0 when none
FindTransporting(S) ==
  LET hits == {a \in S : assignment[a].status = "transporting"}
  IN IF hits = {} THEN 0 ELSE MinId(hits)

RiderNeverChecked(r, a) == FALSE

\* rider_id != null && Number(rider_id) !== Number(a.rider_id)
RiderMismatch(r, a) == r # Null /\ r # a.rider_id

\* the query, the choice of the transporting assignment and the rider check
FinishQuery(p) ==
  LET q == req[p]
      assignSnap == AssignsOf(q.d)
      aDoc == FindTransporting(assignSnap)
  IN /\ q.pc = "fin_query"
     /\ IF assignSnap = {}
        THEN req' = [req EXCEPT ![p] = Respond(q, 404, "assignment for this delivery not found")]
        ELSE IF aDoc = 0
        THEN req' = [req EXCEPT ![p] =
                       Respond(q, 400, "No assignment in 'transporting' for this delivery")]
        ELSE IF RiderMismatch(q.r, assignment[aDoc])
        THEN req' = [req EXCEPT ![p] = Respond(q, 403, "rider_id does not match assignment")]
        ELSE req' = [req EXCEPT ![p].id = aDoc, ![p].pc = "fin_get"]
     /\ UNCHANGED <<store, returned>>

\* const deliveryDoc = await deliveryRef.get()
FinishGetDelivery(p) ==
  LET q == req[p]
  IN /\ q.pc = "fin_get"
     /\ IF ~delivery[q.d].exists
        THEN req' = [req EXCEPT ![p] = Respond(q, 404, "delivery not found")]
        ELSE req' = [req EXCEPT ![p].pc = "fin_updA"]
     /\ UNCHANGED <<store, returned>>

FinishUpdatesNoPicture(a, pic3) == [a EXCEPT !.status = "finish"]

\* { status, updatedAt, ...(picture_status3 ? { picture_status3 } : {}) }
FinishUpdates(a, pic3) ==
  [a EXCEPT !.status = "finish",
            !.picture_status3 = IF pic3 # "" THEN pic3 ELSE a.picture_status3]

\* await aDoc.ref.update(updates)
FinishUpdateAssignment(p) ==
  LET q == req[p]
  IN /\ q.pc = "fin_updA"
     /\ assignment' = [assignment EXCEPT ![q.id] = FinishUpdates(assignment[q.id], q.pic)]
     /\ req' = [req EXCEPT ![p].pc = "fin_updD"]
     /\ UNCHANGED <<counters, users, addresses, delivery, riderLoc, riderCar, returned>>

\* await deliveryRef.update({ status, updatedAt })
FinishUpdateDelivery(p) ==
  LET q == req[p]
  IN /\ q.pc = "fin_updD"
     /\ delivery' = [delivery EXCEPT ![q.d].status = "finish"]
     /\ req' = [req EXCEPT ![p] = RespondWith(q, 200, "ok", q.id)]
     /\ UNCHANGED <<counters, users, addresses, assignment, riderLoc, riderCar, returned>>

(* ------------------------ POST /users/addresses ------------------------ *)
\* the synchronous prefix of createAddress: the required-field check
StartCreateAddress(p, uid, address) ==
  /\ Free(p)
  /\ IF uid = 0 \/ address = ""
     THEN req' = [req EXCEPT ![p] =
                    Reject("create_address", 400, "user_id and address are required")]
     ELSE /\ Allocatable("address_seq")
          /\ req' = [req EXCEPT ![p] = [IdleReq EXCEPT !.op = "create_address", !.pc = "ca_user",
                                           !.seq = "address_seq", !.uid = uid]]
  /\ UNCHANGED <<store, returned>>

\* const userDoc = await db.collection(USER_COL).doc(String(uid)).get()
CreateAddressCheckUser(p) ==
  LET q == req[p]
  IN /\ q.pc = "ca_user"
     /\ IF q.uid \notin DOMAIN users
        THEN req' = [req EXCEPT ![p] = Respond(q, 404, "user not found")]
        ELSE req' = [req EXCEPT ![p].pc = "nid_read"]
     /\ UNCHANGED <<store, returned>>

\* await db.collection(ADDR_COL).doc(docId).set(payload)
CreateAddressWrite(p) ==
  LET q == req[p]
  IN /\ q.pc = "ca_write"
     /\ addresses' = (q.id :> [user_id |-> q.uid]) @@ addresses
     /\ req' = [req EXCEPT ![p] = [RespondWith(q, 201, "ok", q.id) EXCEPT !.aid = q.id]]
     /\ UNCHANGED <<counters, users, delivery, assignment, riderLoc, riderCar, returned>>

(* --------------------- POST /users/addresses/delete -------------------- *)
\* user_id == null || address_id == null
StartAddressDelete(p, uid, aid) ==
  /\ Free(p)
  /\ IF uid = Null \/ aid = Null
     THEN req' = [req EXCEPT ![p] =
                    Reject("address_delete", 400, "user_id and address_id are required")]
     ELSE req' = [req EXCEPT ![p] = [IdleReq EXCEPT !.op = "address_delete", !.pc = "ad_read",
                                                   !.uid = uid, !.aid = aid]]
  /\ UNCHANGED <<store, returned>>

OwnerNeverChecked(data, uid) == FALSE

\* Number(data.user_id) !== uid
OwnerMismatch(data, uid) == data.user_id # uid

\* const docSnap = await docRef.get(), and the two checks on it
AddressDeleteRead(p) ==
  LET q == req[p]
  IN /\ q.pc = "ad_read"
     /\ IF q.aid \notin DOMAIN addresses
        THEN req' = [req EXCEPT ![p] = Respond(q, 404, "address not found")]
        ELSE IF OwnerMismatch(addresses[q.aid], q.uid)
        THEN req' = [req EXCEPT ![p] =
                       Respond(q, 403, "not authorized to delete this address")]
        ELSE req' = [req EXCEPT ![p].pc = "ad_delete"]
     /\ UNCHANGED <<store, returned>>

\* await docRef.delete(): the document is gone afterwards, whether or not it
\* was still there
AddressDelete(p) ==
  LET q == req[p]
  IN /\ q.pc = "ad_delete"
     /\ addresses' = [a \in DOMAIN addresses \ {q.aid} |-> addresses[a]]
     /\ req' = [req EXCEPT ![p] = Respond(q, 200, "deleted successfully")]
     /\ UNCHANGED <<counters, users, delivery, assignment, riderLoc, riderCar, returned>>

(* ----------------------- POST /register/user -------------------------- *)
\* the synchronous prefix of createUser: the required-field check (the route
\* fixes role to 0, which normalizeRoleInt accepts)
StartRegister(p, name, password, phone) ==
  /\ Free(p)
  /\ IF name = "" \/ password = "" \/ phone = ""
     THEN req' = [req EXCEPT ![p] =
                    Reject("register", 400, "name, password, phone are required")]
     ELSE /\ Allocatable("user_seq")
          /\ req' = [req EXCEPT ![p] = [IdleReq EXCEPT !.op = "register", !.pc = "reg_check",
                                           !.seq = "user_seq", !.phone = phone]]
  /\ UNCHANGED <<store, returned>>

\* where("phone", "==", String(phone)).limit(1).get(): the users found
WithPhone(phone) == {u \in DOMAIN users : users[u].phone = phone}

\* await assertPhoneNotDuplicate(phone)
RegisterCheckPhone(p) ==
  LET q == req[p]
  IN /\ q.pc = "reg_check"
     /\ IF WithPhone(q.phone) # {}
        THEN req' = [req EXCEPT ![p] = Respond(q, 409, "phone already exists")]
        ELSE req' = [req EXCEPT ![p].pc = "nid_read"]
     /\ UNCHANGED <<store, returned>>

\* await db.collection(USER_COL).doc(id).set(data)
RegisterWrite(p) ==
  LET q == req[p]
  IN /\ q.pc = "reg_write"
     /\ users' = (q.id :> [phone |-> q.phone]) @@ users
     /\ req' = [req EXCEPT ![p] = RespondWith(q, 201, "ok", q.id)]
     /\ UNCHANGED <<counters, addresses, delivery, assignment, riderLoc, riderCar, returned>>

(* ----------------------- POST /register/rider ------------------------- *)
\* createUser({ ..., role: 1 }) followed by createRiderCar({ user_id: user.id,
\* ... }).  The synchronous prefix is that of createUser (role 1 is one
\* normalizeRoleInt accepts); the body stays with the request, its
\* plate_number and car_type are looked at only after the user is stored.
StartRegisterRider(p, b) ==
  /\ Free(p)
  /\ IF b[1] = "" \/ b[2] = "" \/ b[3] = ""
     THEN req' = [req EXCEPT ![p] =
                    Reject("register_rider", 400, "name, password, phone are required")]
     ELSE /\ Allocatable("user_seq")
          /\ req' = [req EXCEPT ![p] = [IdleReq EXCEPT !.op = "register_rider",
                                           !.pc = "reg_check", !.seq = "user_seq",
                                           !.phone = b[3], !.body = b]]
  /\ UNCHANGED <<store, returned>>

\* !user_id || !plate_number || !car_type; user_id is the id just stored
RiderCarIncomplete(b) == b[4] = "" \/ b[5] = ""

\* await db.collection(USER_COL).doc(id).set(data), createUser returns, and
\* createRiderCar runs up to its first await: the required-field check
RiderUserWrite(p) ==
  LET q == req[p]
      u == [q EXCEPT !.uid = q.id]
  IN /\ q.pc = "rr_user"
     /\ users' = (q.id :> [phone |-> q.phone]) @@ users
     /\ IF RiderCarIncomplete(q.body)
        THEN req' = [req EXCEPT ![p] =
                       Respond(u, 400, "user_id, plate_number, car_type are required")]
        ELSE req' = [req EXCEPT ![p] = [u EXCEPT !.seq = "rider_seq", !.pc = "nid_read"]]
     /\ UNCHANGED <<counters, addresses, delivery, assignment, riderLoc, riderCar, returned>>

\* await db.collection(RIDER_COL).doc(riderId).set(payload)
RiderCarWrite(p) ==
  LET q == req[p]
  IN /\ q.pc = "rc_write"
     /\ riderCar' = (q.id :> [user_id |-> q.uid, plate_number |-> q.body[4],
                              car_type |-> q.body[5]]) @@ riderCar
     /\ req' = [req EXCEPT ![p] = RespondWith(q, 201, "ok", q.id)]
     /\ UNCHANGED <<counters, users, addresses, delivery, assignment, riderLoc, returned>>

Next ==
  \/ \E p \in Procs, body \in CreateBodies, st \in StatusArgs : StartCreate(p, body, st)
  \/ \E p \in Procs : CreateCheck(p)
  \/ \E p \in Procs : CreateWrite(p)
  \/ \E p \in Procs : NextIdRead(p)
  \/ \E p \in Procs : NextIdCommit(p)
  \/ \E p \in Procs, b \in AcceptBodies : StartAccept(p, b[1], b[2], b[3], b[4])
  \/ \E p \in Procs : AcceptRead(p)
  \/ \E p \in Procs : AcceptCommit(p)
  \/ \E p \in Procs, b \in TransportBodies : StartTransport(p, b[1], b[2], b[3], b[4], b[5])
  \/ \E p \in Procs : TransportRead(p)
  \/ \E p \in Procs : TransportCommit(p)
  \/ \E p \in Procs, b \in FinishBodies : StartFinish(p, b[1], b[2], b[3])
  \/ \E p \in Procs : FinishQuery(p)
  \/ \E p \in Procs : FinishGetDelivery(p)
  \/ \E p \in Procs : FinishUpdateAssignment(p)
  \/ \E p \in Procs : FinishUpdateDelivery(p)

Spec == Init /\ [][Next]_vars

\* the handlers of src/server.js
NextSrv ==
  \/ \E p \in Procs, body \in CreateBodies, st \in StatusArgs : StartCreate(p, body, st)
  \/ \E p \in Procs : CreateCheck(p)
  \/ \E p \in Procs : CreateWrite(p)
  \/ \E p \in Procs : NextIdRead(p)
  \/ \E p \in Procs : NextIdCommit(p)
  \/ \E p \in Procs, b \in SrvAcceptBodies : StartSrvAccept(p, b[1], b[2])
  \/ \E p \in Procs : SrvAcceptRead(p)
  \/ \E p \in Procs : SrvAcceptWriteAssignment(p)
  \/ \E p \in Procs : SrvAcceptUpdateDelivery(p)
  \/ \E p \in Procs, b \in TransportBodies :
       StartSrvTransport(p, b[1], b[2], b[3], b[4], b[5])
  \/ \E p \in Procs : SrvTransportRead(p)
  \/ \E p \in Procs : SrvTransportCommit(p)
  \/ \E p \in Procs, b \in FinishBodies : StartFinish(p, b[1], b[2], b[3])
  \/ \E p \in Procs : FinishQuery(p)
  \/ \E p \in Procs : FinishGetDelivery(p)
  \/ \E p \in Procs : FinishUpdateAssignment(p)
  \/ \E p \in Procs : FinishUpdateDelivery(p)

SpecSrv == Init /\ [][NextSrv]_vars

\* the location handler of src/server.js, for concurrent requests
NextLoc ==
  \/ \E p \in Procs, b \in LocBodies : StartLocUpdate(p, b[1], b[2], b[3])
  \/ \E p \in Procs : LocRead(p)
  \/ \E p \in Procs : LocWrite(p)

SpecLoc == Init /\ [][NextLoc]_vars

\* The overview query over the stores the lifecycle handlers leave behind.
\* Two deliveries have been created; each has at most one assignment (only
\* a waiting delivery is accepted), made by any rider and now in accept,
\* transporting or finish, and the delivery mirrors it; a rider with an
\* assignment has a location, any other rider may have none; the address of
\* the receiver may have been deleted since.
OvDeliveryIds == 1..2
AssignDocAt(st, d, r) ==
  [exists |-> TRUE, delivery_id |-> d, rider_id |-> r, status |-> st,
   picture_status2 |-> IF st = "accept" THEN "" ELSE "img2",
   picture_status3 |-> IF st = "finish" THEN "img3" ELSE ""]
AssignDocs ==
  {NoAssign} \cup {AssignDocAt(st, d, r) : st \in {"accept", "transporting", "finish"},
                                           d \in OvDeliveryIds, r \in Riders}
DeliveryMirror(asg, d) ==
  LET of == {a \in AssiIds : asg[a].exists /\ asg[a].delivery_id = d}
  IN [exists |-> TRUE,
      status |-> IF of = {} THEN "waiting" ELSE asg[CHOOSE a \in of : TRUE].status,
      address_id_sender |-> 1,
      address_id_receiver |-> 2]

InitOverview ==
  /\ counters = [s \in SeqNames |-> [exists |-> TRUE, value |-> 2]]
  /\ users = SomeUsers
  /\ addresses \in {SomeAddresses, (1 :> [user_id |-> 1])}
  /\ assignment \in [AssiIds -> AssignDocs]
  /\ \A a, b \in AssiIds :
       (a # b /\ assignment[a].exists /\ assignment[b].exists) =>
          assignment[a].delivery_id # assignment[b].delivery_id
  /\ delivery = [d \in OvDeliveryIds |-> DeliveryMirror(assignment, d)]
  /\ riderLoc \in [Riders -> {NoLoc, [exists |-> TRUE, lat |-> 13, lng |-> 100]}]
  /\ riderCar = SomeRiderCars
  /\ \A a \in AssiIds : assignment[a].exists => riderLoc[assignment[a].rider_id].exists
  /\ returned = [s \in SeqNames |-> <<>>]
  /\ req = [p \in Procs |-> IdleReq]

NextOverview ==
  \/ \E p \in Procs, r \in Riders : StartOverview(p, r)
  \/ \E p \in Procs : OvReadLocation(p)
  \/ \E p \in Procs : OvQuery(p)
  \/ \E p \in Procs : OvGetDelivery(p)
  \/ \E p \in Procs : OvGetAddress(p)

SpecOverview == InitOverview /\ [][NextOverview]_vars

\* The two overview handlers side by side on stores with one assignment more
\* than the query of src/server.js returns: the assignments 1 .. n exist,
\* rider 1 made them all, assignment a is the one of delivery a, each is in
\* accept, transporting or finish and its delivery mirrors it.
OvManyIds == 1..(OverviewLimit + 1)

InitOverviewBoth ==
  /\ users = SomeUsers
  /\ addresses = SomeAddresses
  /\ \E st \in [OvManyIds -> {"", "accept", "transporting", "finish"}] :
        /\ \A a, b \in OvManyIds : (a < b /\ st[b] # "") => st[a] # ""
        /\ assignment = [a \in OvManyIds |->
                           IF st[a] = "" THEN NoAssign ELSE AssignDocAt(st[a], a, 1)]
  /\ counters = [s \in SeqNames |->
                   [exists |-> TRUE,
                    value |-> IF s = "assi_seq"
                              THEN Cardinality({a \in OvManyIds : assignment[a].exists})
                              ELSE IF s = "delivery_seq" THEN OverviewLimit + 1 ELSE 2]]
  /\ delivery = [d \in OvManyIds |->
                   [exists |-> TRUE,
                    status |-> IF assignment[d].exists THEN assignment[d].status ELSE "waiting",
                    address_id_sender |-> 1,
                    address_id_receiver |-> 2]]
  /\ riderLoc = [r \in Riders |-> [exists |-> TRUE, lat |-> 13, lng |-> 100]]
  /\ riderCar = SomeRiderCars
  /\ returned = [s \in SeqNames |-> <<>>]
  /\ req = [p \in Procs |-> IdleReq]

NextOverviewBoth ==
  \/ \E p \in Procs, r \in Riders : StartOverview(p, r)
  \/ \E p \in Procs, r \in Riders : StartSrvOverview(p, r)
  \/ \E p \in Procs : OvReadLocation(p)
  \/ \E p \in Procs : OvQuery(p)
  \/ \E p \in Procs : SrvOvQuery(p)
  \/ \E p \in Procs : OvGetDelivery(p)
  \/ \E p \in Procs : OvGetAddress(p)

SpecOverviewBoth == InitOverviewBoth /\ [][NextOverviewBoth]_vars

\* One client that sends the four requests of a delivery's life one after the
\* other, each when the one before has been answered, to any of the slots:
\* create with existing users and addresses and no status field, accept by a
\* rider, mark-transporting by that rider with a picture, mark-finish with a
\* picture (with or without the rider's id).
AllFree == \A p \in Procs : Free(p)
RiderOf(d) ==
  LET a == CHOOSE a \in AssiIds : assignment[a].exists /\ assignment[a].delivery_id = d
  IN assignment[a].rider_id

ClientCreate(p) ==
  /\ AllFree
  /\ counters["delivery_seq"] = NoCounter
  /\ StartCreate(p, <<1, 2, 1, 2>>, "")

ClientAccept(p, d, r, lat, lng) ==
  /\ AllFree
  /\ delivery[d].exists /\ delivery[d].status = "waiting"
  /\ StartAccept(p, d, r, lat, lng)

ClientTransport(p, d, lat, lng) ==
  /\ AllFree
  /\ delivery[d].exists /\ delivery[d].status = "accept"
  /\ StartTransport(p, d, RiderOf(d), "img2", lat, lng)

ClientFinish(p, d, r) ==
  /\ AllFree
  /\ delivery[d].exists /\ delivery[d].status = "transporting"
  /\ r \in {Null, RiderOf(d)}
  /\ StartFinish(p, d, "img3", r)

NextHappy ==
  \/ \E p \in Procs : ClientCreate(p)
  \/ \E p \in Procs, d \in DeliveryIds, r \in Riders, lat \in Lats, lng \in Lngs :
       ClientAccept(p, d, r, lat, lng)
  \/ \E p \in Procs, d \in DeliveryIds, lat \in Lats, lng \in Lngs :
       ClientTransport(p, d, lat, lng)
  \/ \E p \in Procs, d \in DeliveryIds, r \in {Null} \cup Riders : ClientFinish(p, d, r)
  \/ \E p \in Procs : CreateCheck(p)
  \/ \E p \in Procs : CreateWrite(p)
  \/ \E p \in Procs : NextIdRead(p)
  \/ \E p \in Procs : NextIdCommit(p)
  \/ \E p \in Procs : AcceptRead(p)
  \/ \E p \in Procs : AcceptCommit(p)
  \/ \E p \in Procs : TransportRead(p)
  \/ \E p \in Procs : TransportCommit(p)
  \/ \E p \in Procs : FinishQuery(p)
  \/ \E p \in Procs : FinishGetDelivery(p)
  \/ \E p \in Procs : FinishUpdateAssignment(p)
  \/ \E p \in Procs : FinishUpdateDelivery(p)

SpecHappy == Init /\ [][NextHappy]_vars

\* the allocator alone: concurrent calls of nextId on the sequences of the
\* creators that call it directly (createUser, createAddress)
DirectSeqNames == {"user_seq", "address_seq"}
NextAlloc ==
  \/ \E p \in Procs, s \in DirectSeqNames : StartNextId(p, s)
  \/ \E p \in Procs : NextIdRead(p)
  \/ \E p \in Procs : NextIdCommit(p)

SpecAlloc == InitFresh /\ [][NextAlloc]_vars

\* The event loop resumes every pending await: a call of nextId that can read
\* or commit eventually does.
FairAlloc ==
  \A p \in Procs : WF_vars(NextIdRead(p)) /\ WF_vars(NextIdCommit(p))

SpecAllocFair == SpecAlloc /\ FairAlloc

\* The five handlers that validate their body, each with the bodies that
\* miss a required field and one complete body (rider 1 at the first point).
NextValidation ==
  \/ \E p \in Procs, body \in {<<1, 2, 1, 2>>, <<0, 2, 1, 2>>} : StartCreate(p, body, "")
  \/ \E p \in Procs : CreateCheck(p)
  \/ \E p \in Procs : CreateWrite(p)
  \/ \E p \in Procs : NextIdRead(p)
  \/ \E p \in Procs : NextIdCommit(p)
  \/ \E p \in Procs, b \in {x \in AcceptBodies : x[2] # 2 /\ x[3] # 14} :
        StartAccept(p, b[1], b[2], b[3], b[4])
  \/ \E p \in Procs : AcceptRead(p)
  \/ \E p \in Procs : AcceptCommit(p)
  \/ \E p \in Procs, b \in {x \in TransportBodies : x[2] # 2 /\ x[4] # 14} :
        StartTransport(p, b[1], b[2], b[3], b[4], b[5])
  \/ \E p \in Procs : TransportRead(p)
  \/ \E p \in Procs : TransportCommit(p)
  \/ \E p \in Procs, b \in {x \in FinishBodies : x[2] = "img3" /\ x[3] = Null} :
        StartFinish(p, b[1], b[2], b[3])
  \/ \E p \in Procs : FinishQuery(p)
  \/ \E p \in Procs : FinishGetDelivery(p)
  \/ \E p \in Procs : FinishUpdateAssignment(p)
  \/ \E p \in Procs : FinishUpdateDelivery(p)
  \/ \E p \in Procs, b \in {x \in LocBodies : x[1] # 2 /\ x[2] \in {Null, 13}} :
        StartLocUpdate(p, b[1], b[2], b[3])
  \/ \E p \in Procs : LocRead(p)
  \/ \E p \in Procs : LocWrite(p)

SpecValidation == Init /\ [][NextValidation]_vars

\* The two transactional variants of the Mark-transporting handler, on the
\* stores the lifecycle handlers leave behind.
NextTransportTx ==
  \/ \E p \in Procs, b \in TransportBodies : StartTransport(p, b[1], b[2], b[3], b[4], b[5])
  \/ \E p \in Procs : TransportRead(p)
  \/ \E p \in Procs : TransportCommit(p)
  \/ \E p \in Procs, b \in TransportBodies : StartTransport002(p, b[1], b[2], b[3], b[4], b[5])
  \/ \E p \in Procs : TransportRead002(p)
  \/ \E p \in Procs : TransportReread002(p)

SpecTransportTx == InitOverview /\ [][NextTransportTx]_vars

\* the address handlers of src/server.js, for concurrent requests
NextAddress ==
  \/ \E p \in Procs, b \in AddressBodies : StartCreateAddress(p, b[1], b[2])
  \/ \E p \in Procs : CreateAddressCheckUser(p)
  \/ \E p \in Procs : NextIdRead(p)
  \/ \E p \in Procs : NextIdCommit(p)
  \/ \E p \in Procs : CreateAddressWrite(p)
  \/ \E p \in Procs, b \in AddressDeleteBodies : StartAddressDelete(p, b[1], b[2])
  \/ \E p \in Procs : AddressDeleteRead(p)
  \/ \E p \in Procs : AddressDelete(p)

SpecAddress == Init /\ [][NextAddress]_vars

\* Accept requests of src/unnamed/part_004 on a store where two deliveries
\* have been created and wait, so that accepts of different deliveries can
\* overlap.
InitTwoWaiting ==
  /\ counters = [s \in SeqNames |->
                   IF s = "assi_seq" THEN NoCounter ELSE [exists |-> TRUE, value |-> 2]]
  /\ users = SomeUsers
  /\ addresses = SomeAddresses
  /\ delivery = [d \in OvDeliveryIds |->
                   [exists |-> TRUE, status |-> "waiting", address_id_sender |-> 1,
                    address_id_receiver |-> 2]]
  /\ assignment = [a \in AssiIds |-> NoAssign]
  /\ riderLoc = [r \in Riders |-> NoLoc]
  /\ riderCar = SomeRiderCars
  /\ returned = [s \in SeqNames |-> IF s = "assi_seq" THEN <<>> ELSE <<1, 2>>]
  /\ req = [p \in Procs |-> IdleReq]

NextAcceptTwo ==
  \/ \E p \in Procs, d \in OvDeliveryIds \cup {0}, r \in Riders, lat \in Lats :
        StartAccept(p, d, r, lat, 100)
  \/ \E p \in Procs : NextIdRead(p)
  \/ \E p \in Procs : NextIdCommit(p)
  \/ \E p \in Procs : AcceptRead(p)
  \/ \E p \in Procs : AcceptCommit(p)

SpecAcceptTwo == InitTwoWaiting /\ [][NextAcceptTwo]_vars

\* registration on a fresh deployment: concurrent /register/user requests
NextRegister ==
  \/ \E p \in Procs, b \in RegisterBodies : StartRegister(p, b[1], b[2], b[3])
  \/ \E p \in Procs : RegisterCheckPhone(p)
  \/ \E p \in Procs : NextIdRead(p)
  \/ \E p \in Procs : NextIdCommit(p)
  \/ \E p \in Procs : RegisterWrite(p)

SpecRegister == InitFresh /\ [][NextRegister]_vars

\* Create (src/server.js createDelivery) next to the deletion of addresses
\* (POST /users/addresses/delete), which never looks at a delivery.
NextCreateDelete ==
  \/ \E p \in Procs, b \in CreateBodies, st \in StatusArgs : StartCreate(p, b, st)
  \/ \E p \in Procs : CreateCheck(p)
  \/ \E p \in Procs : NextIdRead(p)
  \/ \E p \in Procs : NextIdCommit(p)
  \/ \E p \in Procs : CreateWrite(p)
  \/ \E p \in Procs, b \in AddressDeleteBodies : StartAddressDelete(p, b[1], b[2])
  \/ \E p \in Procs : AddressDeleteRead(p)
  \/ \E p \in Procs : AddressDelete(p)

SpecCreateDelete == Init /\ [][NextCreateDelete]_vars

\* Rider registrations on a fresh deployment.
NextRegisterRider ==
  \/ \E p \in Procs, b \in RiderBodies : StartRegisterRider(p, b)
  \/ \E p \in Procs : RegisterCheckPhone(p)
  \/ \E p \in Procs : NextIdRead(p)
  \/ \E p \in Procs : NextIdCommit(p)
  \/ \E p \in Procs : RiderUserWrite(p)
  \/ \E p \in Procs : RiderCarWrite(p)

SpecRegisterRider == InitFresh /\ [][NextRegisterRider]_vars

(* ============================== claims ================================= *)
Done(p) == req[p].pc = "done"
Conflict == "Delivery already accepted or in progress"
StoreErr == "aborted"
Active(a) == assignment[a].exists /\ assignment[a].status \in {"accept", "transporting"}
Referencing(d) == {a \in AssiIds : assignment[a].exists /\ assignment[a].delivery_id = d}
Transporting(d) == {a \in Referencing(d) : assignment[a].status = "transporting"}
DocsUnchanged == delivery' = delivery /\ assignment' = assignment /\ riderLoc' = riderLoc

\* two answered accepts of different riders for one delivery that was waiting
\* when each of them arrived, neither stopped by the store
AcceptPair(p, q) ==
  /\ p # q /\ Done(p) /\ Done(q)
  /\ req[p].op = "accept" /\ req[q].op = "accept"
  /\ req[p].w /\ req[q].w
  /\ req[p].d = req[q].d /\ req[p].r # req[q].r
  /\ req[p].msg # StoreErr /\ req[q].msg # StoreErr

\* C1: of two accepts of different riders on a waiting delivery at most one
\* answers 200 and each other one answers 400 with the conflict message;
\* afterwards the delivery has left waiting and exactly one assignment
\* references it, the one of the accept that answered 200.
C1_SingleAcceptance ==
  \A p, q \in Procs :
    AcceptPair(p, q) =>
      /\ ~(req[p].code = 200 /\ req[q].code = 200)
      /\ Cardinality(Referencing(req[p].d)) = 1
      /\ delivery[req[p].d].status \in {"accept", "transporting", "finish"}
      /\ \A x \in {p, q} :
           IF req[x].code = 200
           THEN Referencing(req[x].d) = {req[x].id}
           ELSE req[x].code = 400 /\ req[x].msg = Conflict

C1_Witness ==
  \E p, q \in Procs :
    /\ AcceptPair(p, q)
    /\ req[p].code = 200 /\ req[q].code = 400 /\ req[q].msg = Conflict
    /\ delivery[req[p].d].status = "accept"

\* C2: no two nextId calls on one sequence return the same value.
C2_AllocatorUnique ==
  \A s \in SeqNames :
    \A i, j \in 1..Len(returned[s]) : i # j => returned[s][i] # returned[s][j]

\* two accepts were inside nextId("assi_seq") together and both got a value
C2_Witness ==
  /\ Len(returned["assi_seq"]) = 2
  /\ \E p, q \in Procs : p # q /\ req[p].pc = "acc_read" /\ req[q].pc = "acc_read"

StatusOf(doc) == IF doc.exists THEN doc.status ELSE "none"
LegalStep(from, to) ==
  \/ from = to
  \/ from = "none" /\ to = "waiting"
  \/ from = "waiting" /\ to = "accept"
  \/ from = "accept" /\ to = "transporting"
  \/ from = "transporting" /\ to = "finish"

\* C3: the status of a delivery starts at waiting and only ever moves one step
\* along waiting, accept, transporting, finish.
C3_StatusMonotone ==
  [][\A d \in DeliveryIds : LegalStep(StatusOf(delivery[d]), StatusOf(delivery'[d]))]_vars

\* C4: no delivery is referenced by two assignments whose status is accept or
\* transporting.
C4_OneActiveAssignment ==
  \A d \in DeliveryIds : Cardinality({a \in Referencing(d) : Active(a)}) <= 1

\* a delivery has an active assignment and a second accept on it was refused
C4_Witness ==
  \E p \in Procs, a \in AssiIds :
    /\ Active(a)
    /\ Done(p) /\ req[p].op = "accept" /\ req[p].d = assignment[a].delivery_id
    /\ req[p].msg = Conflict

AcceptedDoc(q) ==
  [exists |-> TRUE, delivery_id |-> q.d, rider_id |-> q.r, status |-> "accept",
   picture_status2 |-> "", picture_status3 |-> ""]

\* C5: a step of an accept request either changes no document, or makes its
\* assignment (status accept), the delivery's status accept and the rider's
\* location with the supplied coordinates appear together; and an assignment
\* in accept is never seen with a delivery that is not in accept or with a
\* rider without a location.
C5_AcceptAllOrNothing ==
  /\ [](\A a \in AssiIds :
          (assignment[a].exists /\ assignment[a].status = "accept") =>
             /\ delivery[assignment[a].delivery_id].status = "accept"
             /\ riderLoc[assignment[a].rider_id].exists)
  /\ [][\A p \in Procs :
          (req[p].op = "accept" /\ req'[p] # req[p]) =>
             \/ DocsUnchanged
             \/ /\ ~assignment[req[p].id].exists
                /\ assignment'[req[p].id] = AcceptedDoc(req[p])
                /\ delivery[req[p].d].status = "waiting"
                /\ delivery'[req[p].d].status = "accept"
                /\ riderLoc'[req[p].r] =
                     [exists |-> TRUE, lat |-> req[p].lat, lng |-> req[p].lng]]_vars

\* an accept has committed: its three documents are there
C5_Witness ==
  \E p \in Procs :
    /\ Done(p) /\ req[p].op = "accept" /\ req[p].code = 200
    /\ assignment[req[p].id].status = "accept"
    /\ delivery[req[p].d].status = "accept"
    /\ riderLoc[req[p].r].exists

\* the precondition of mark-transporting, on the documents as they are
TransportPre(d, r) ==
  /\ delivery[d].exists
  /\ \E a \in Referencing(d) : assignment[a].rider_id = r
  /\ \A a \in Referencing(d) : assignment[a].rider_id = r => assignment[a].status = "accept"

\* C6: a mark-transporting request answers 200 only from a state in which the
\* delivery exists and the assignment of that delivery and rider is in
\* accept; a request that reads anything else is answered with an error, and
\* a step of a request that does not answer 200 changes no document.
C6_TransportPrecondition ==
  [][\A p \in Procs :
       (req[p].op = "transport" /\ req'[p] # req[p] /\ ~Done(p)) =>
          /\ (req'[p].pc = "done" /\ req'[p].code = 200) => TransportPre(req[p].d, req[p].r)
          /\ ~(req'[p].pc = "done" /\ req'[p].code = 200) => DocsUnchanged
          /\ (req[p].pc = "tr_read" /\ ~TransportPre(req[p].d, req[p].r)) =>
                req'[p].pc = "done" /\ req'[p].code = 400]_vars

\* a mark-transporting was refused because the assignment is not in accept
\* any more
C6_Witness ==
  \E p \in Procs :
    /\ Done(p) /\ req[p].op = "transport"
    /\ req[p].msg = "Assignment must be in 'accept' to set transporting"

\* C7: the assignment moves from accept to transporting only together with
\* the supplied picture, the delivery's move to transporting and the rider's
\* location; an assignment in transporting is never seen with a delivery in
\* accept, nor a delivery in transporting with its assignment in accept.
C7_TransportAtomic ==
  /\ [](\A a \in AssiIds :
          assignment[a].exists =>
             /\ assignment[a].status = "transporting" =>
                  delivery[assignment[a].delivery_id].status = "transporting"
             /\ assignment[a].status = "accept" =>
                  delivery[assignment[a].delivery_id].status = "accept")
  /\ [][\A a \in AssiIds :
          (assignment[a].status = "accept" /\ assignment'[a].status = "transporting") =>
             \E p \in Procs :
               /\ req[p].pc = "tr_commit" /\ req[p].snapA.id = a
               /\ req'[p].pc = "done" /\ req'[p].code = 200
               /\ assignment'[a].picture_status2 = req[p].pic
               /\ delivery'[assignment[a].delivery_id].status = "transporting"
               /\ riderLoc'[req[p].r] =
                    [exists |-> TRUE, lat |-> req[p].lat, lng |-> req[p].lng]]_vars

\* a mark-transporting has committed with coordinates other than the accept's
C7_Witness ==
  \E p \in Procs :
    /\ Done(p) /\ req[p].op = "transport" /\ req[p].code = 200
    /\ assignment[req[p].id].status = "transporting"
    /\ assignment[req[p].id].picture_status2 = "img2"
    /\ delivery[req[p].d].status = "transporting"
    /\ riderLoc[req[p].r].lat = 14

\* C8: a mark-finish whose query finds no assignment in transporting for the
\* delivery is answered 404 (no assignment at all) or 400 (none in
\* transporting), and changes no document.
C8_WrongStateFinish ==
  [][\A p \in Procs :
       (req[p].pc = "fin_query" /\ req'[p] # req[p]
          /\ Transporting(req[p].d) = {}) =>
            /\ req'[p].pc = "done"
            /\ IF Referencing(req[p].d) = {} THEN req'[p].code = 404 ELSE req'[p].code = 400
            /\ DocsUnchanged]_vars

\* a mark-finish was refused while the delivery's assignment was in accept
C8_Witness ==
  \E p \in Procs, a \in AssiIds :
    /\ Done(p) /\ req[p].op = "finish" /\ req[p].code = 400
    /\ assignment[a].exists /\ assignment[a].delivery_id = req[p].d
    /\ assignment[a].status = "accept"

\* C9: a mark-finish that carries a rider_id other than the one of the
\* delivery's transporting assignment is answered 403 and changes no
\* document; one that carries no rider_id, or the right one, goes on.
C9_FinishAuthorization ==
  [][\A p \in Procs : \A a \in Transporting(req[p].d) :
       (req[p].pc = "fin_query" /\ req'[p] # req[p]) =>
          IF req[p].r # Null /\ req[p].r # assignment[a].rider_id
          THEN req'[p].pc = "done" /\ req'[p].code = 403 /\ DocsUnchanged
          ELSE req'[p].pc = "fin_get" /\ req'[p].id = a]_vars

\* one mark-finish was refused as forbidden and one without rider_id finished
\* the same delivery
C9_Witness ==
  \E p, q \in Procs :
    /\ Done(p) /\ req[p].op = "finish" /\ req[p].code = 403
    /\ Done(q) /\ req[q].op = "finish" /\ req[q].code = 200 /\ req[q].r = Null
    /\ req[p].d = req[q].d

\* C10: every delivery is stored by create with status waiting.
C10_CreatedWaiting ==
  [][\A d \in DeliveryIds :
       (~delivery[d].exists /\ delivery'[d].exists) => delivery'[d].status = "waiting"]_vars

\* the references of a create body, on the store as it is
RefsExist(b) == b[1] \in DOMAIN users /\ b[2] \in DOMAIN users /\ b[3] \in DOMAIN addresses /\ b[4] \in DOMAIN addresses

C12_AssignmentMirrors ==
  \A a \in AssiIds :
    (assignment[a].exists /\ assignment[a].status \in {"accept", "transporting", "finish"}) =>
       delivery[assignment[a].delivery_id].status = assignment[a].status

Returned(p) == Done(p) /\ req[p].op = "nextId" /\ req[p].msg # StoreErr
\* the value a counter document holds, a missing one counting as 0
Stored(c) == IF c.exists THEN c.value ELSE 0

\* C13: a nextId call returns a value strictly greater than every value
\* returned on its sequence before the call started, and the stored value of
\* a counter never decreases.
C13_AllocatorMonotone ==
  /\ [](\A p \in Procs : Returned(p) => req[p].id > req[p].lo)
  /\ [][\A s \in SeqNames : Stored(counters'[s]) >= Stored(counters[s])]_vars

\* a call that started after 1 had been returned was overtaken by another
\* call and returned 3
C13_Witness ==
  \E p \in Procs : Returned(p) /\ req[p].lo = 1 /\ req[p].id = 3

\* C14: on every sequence the values returned so far are exactly 1, 2, ...,
\* up to the number of calls that returned, the counter holds that number,
\* and a counter that was never written is missing; so N calls that all
\* return from a counter holding h return exactly h+1 .. h+N and leave the
\* counter at h+N, and the first call on a fresh sequence returns 1.
C14_AllocatorContiguous ==
  \A s \in SeqNames :
    /\ \A i \in 1..Len(returned[s]) : returned[s][i] = i
    /\ Stored(counters[s]) = Len(returned[s])
    /\ counters[s].exists <=> Len(returned[s]) > 0

\* two calls that both started on the fresh sequence have both returned
C14_Witness ==
  \E p, q \in Procs :
    /\ Returned(p) /\ Returned(q)
    /\ req[p].lo = 0 /\ req[q].lo = 0
    /\ req[p].id = 1 /\ req[q].id = 2
    /\ returned["user_seq"] = <<1, 2>>

\* the request of slot p is answered by this step
Answers(p) == ~Done(p) /\ req'[p].pc = "done"

\* C15: when the four requests of the happy path are sent one after the
\* other, each is answered with success, and the answers leave, in order: the
\* delivery in waiting; the delivery in accept with exactly one assignment,
\* of the accepting rider, in accept; the delivery and the assignment in
\* transporting with picture_status2 set; the delivery and the assignment in
\* finish with picture_status3 set. The status moves one step at a time.
C15_HappyPath ==
  [][/\ \A d \in DeliveryIds : LegalStep(StatusOf(delivery[d]), StatusOf(delivery'[d]))
     /\ \A p \in Procs :
          Answers(p) =>
            LET q == req[p]
                a == req'[p].id
            IN /\ q.op = "create" =>
                    /\ req'[p].code = 201
                    /\ ~delivery[req'[p].id].exists
                    /\ delivery'[req'[p].id].status = "waiting"
               /\ q.op = "accept" =>
                    /\ req'[p].code = 200
                    /\ delivery[q.d].status = "waiting" /\ delivery'[q.d].status = "accept"
                    /\ {x \in AssiIds : assignment'[x].exists /\ assignment'[x].delivery_id = q.d}
                         = {a}
                    /\ assignment'[a].rider_id = q.r /\ assignment'[a].status = "accept"
               /\ q.op = "transport" =>
                    /\ req'[p].code = 200
                    /\ delivery[q.d].status = "accept" /\ delivery'[q.d].status = "transporting"
                    /\ assignment'[a].status = "transporting"
                    /\ assignment'[a].rider_id = q.r /\ assignment'[a].delivery_id = q.d
                    /\ assignment'[a].picture_status2 = "img2"
               /\ q.op = "finish" =>
                    /\ req'[p].code = 200
                    /\ delivery[q.d].status = "transporting" /\ delivery'[q.d].status = "finish"
                    /\ assignment'[a].status = "finish" /\ assignment'[a].delivery_id = q.d
                    /\ assignment'[a].picture_status2 = "img2"
                    /\ assignment'[a].picture_status3 = "img3"]_vars

\* the end of the happy path: rider 1's assignment and the delivery are in
\* finish with both pictures, and the last answer is a success
C15_Witness ==
  \E p \in Procs, a \in AssiIds, d \in DeliveryIds :
    /\ Done(p) /\ req[p].op = "finish" /\ req[p].code = 200 /\ req[p].id = a
    /\ delivery[d].status = "finish"
    /\ assignment[a] = [exists |-> TRUE, delivery_id |-> d, rider_id |-> 1, status |-> "finish",
                         picture_status2 |-> "img2", picture_status3 |-> "img3"]

\* two answered accepts of src/server.js for one delivery that was waiting
\* when each of them arrived
SrvAcceptPair(p, q) ==
  /\ p # q /\ Done(p) /\ Done(q)
  /\ req[p].op = "srv_accept" /\ req[q].op = "srv_accept"
  /\ req[p].w /\ req[q].w
  /\ req[p].d = req[q].d
  /\ req[p].msg # StoreErr /\ req[q].msg # StoreErr

\* C16: with the accept handler of src/server.js, two accepts on the same
\* waiting delivery never both answer 200, and exactly one assignment is
\* created for that delivery.
C16_SrvSingleAcceptance ==
  \A p, q \in Procs :
    SrvAcceptPair(p, q) =>
      /\ ~(req[p].code = 200 /\ req[q].code = 200)
      /\ Cardinality(Referencing(req[p].d)) = 1

\* rider r holds an assignment in accept for delivery d
HoldsAccept(d, r) ==
  \E a \in Referencing(d) : assignment[a].rider_id = r /\ assignment[a].status = "accept"

\* C17: with the update-status-accept handler of src/server.js, a step of a
\* request of a rider who holds no assignment in accept for the delivery
\* changes no delivery, assignment or location, and such a request is not
\* answered 200.
C17_SrvWrongRider ==
  [][\A p \in Procs :
       (req[p].op = "srv_transport" /\ ~Done(p) /\ req'[p] # req[p]
          /\ ~HoldsAccept(req[p].d, req[p].r)) =>
            /\ DocsUnchanged
            /\ ~(req'[p].pc = "done" /\ req'[p].code = 200)]_vars

\* C18: with the handlers of src/server.js, a delivery in waiting moves to
\* no status but accept, and a mark-transporting that reads a waiting
\* delivery is answered with an error.
C18_SrvNoSkippedState ==
  [][/\ \A d \in DeliveryIds :
          (delivery[d].exists /\ delivery[d].status = "waiting") =>
             delivery'[d].status \in {"waiting", "accept"}
     /\ \A p \in Procs :
          (req[p].pc = "st_read" /\ req'[p] # req[p]
             /\ delivery[req[p].d].exists /\ delivery[req[p].d].status = "waiting") =>
               req'[p].pc = "done" /\ req'[p].code >= 400]_vars

\* The stored coordinate of a rider is within the no-op distance of a new
\* one: less than two metres, the threshold of the handlers that have one
\* (d < 2, src/unnamed/part_000 lines 726 and 769).
NearStored(loc, lat, lng) ==
  /\ loc.exists
  /\ (loc.lat - lat) * (loc.lat - lat) + (loc.lng - lng) * (loc.lng - lng) < 4

\* C19: when a location update with rider id and coordinates is answered,
\* then, if its coordinate is within the threshold of the rider's stored
\* coordinate, no location has changed and the answer is skipped; and
\* otherwise (beyond the threshold, or nothing stored) the rider's stored
\* coordinate is the new one and the answer is updated.
C19_LocationDedup ==
  [][\A p \in Procs :
       (req[p].op = "loc" /\ Answers(p)) =>
          IF NearStored(riderLoc[req[p].r], req[p].lat, req[p].lng)
          THEN riderLoc' = riderLoc /\ req'[p].msg = "skipped"
          ELSE /\ riderLoc'[req[p].r] = [exists |-> TRUE, lat |-> req[p].lat, lng |-> req[p].lng]
               /\ req'[p].msg = "updated"]_vars

\* the assignments of rider r that are in accept or transporting
ActiveOfRider(r) ==
  {a \in AssiIds : assignment[a].exists /\ assignment[a].rider_id = r
                     /\ assignment[a].status \in {"accept", "transporting"}}

\* C20: an overview of a rider who has a location is answered with the
\* rider's position and, if the rider has assignments in accept or
\* transporting, with the delivery of the one of them whose assi_id is the
\* largest; and with null delivery_id and null receiver position if the
\* rider has none.
C20_OverviewSelection ==
  \A p \in Procs :
    (Done(p) /\ req[p].op = "overview" /\ riderLoc[req[p].r].exists) =>
       /\ req[p].code = 200
       /\ req[p].lat = riderLoc[req[p].r].lat /\ req[p].lng = riderLoc[req[p].r].lng
       /\ IF ActiveOfRider(req[p].r) = {}
          THEN req[p].d = Null /\ req[p].recv = Null
          ELSE \E a \in ActiveOfRider(req[p].r) :
                 /\ \A b \in ActiveOfRider(req[p].r) : b <= a
                 /\ req[p].d = assignment[a].delivery_id

\* a rider holds two assignments in accept or transporting, and the overview
\* answered the delivery of the second, which is not the delivery of the
\* first
C20_Witness ==
  \E p \in Procs :
    /\ Done(p) /\ req[p].op = "overview" /\ req[p].code = 200
    /\ ActiveOfRider(req[p].r) = {1, 2}
    /\ req[p].d = assignment[2].delivery_id
    /\ assignment[1].delivery_id = 2
    /\ req[p].recv = 2

\* C21: in every reachable state no two User records have the same phone,
\* also when registrations with the same phone run concurrently.
C21_PhoneUnique ==
  \A u, v \in DOMAIN users : u # v => users[u].phone # users[v].phone

\* a free slot takes a request in this step
Arrives(p) == Free(p) /\ req'[p] # req[p]

\* every field the handler of q requires is present in what the slot keeps
Complete(q) ==
  IF q.op = "create" THEN \A i \in 1..4 : q.body[i] # 0
  ELSE IF q.op = "accept" THEN q.d # 0 /\ q.r # 0 /\ q.lat # Null /\ q.lng # Null
  ELSE IF q.op = "transport"
  THEN q.d # 0 /\ q.r # 0 /\ q.pic # "" /\ q.lat # Null /\ q.lng # Null
  ELSE IF q.op = "finish" THEN q.d # 0
  ELSE IF q.op = "loc" THEN q.r # 0 /\ q.lat # Null /\ q.lng # Null
  ELSE FALSE

\* C22: Create, Accept, Mark-transporting, Mark-finish and location update
\* validate before any I/O: the step that takes a request changes no record
\* and no counter, and the request either has every required field and goes
\* on to its first store operation, or is answered 400 at once.
C22_ValidationFirst ==
  [][\A p \in Procs :
       Arrives(p) =>
         /\ store' = store
         /\ IF req'[p].pc = "done" THEN req'[p].code = 400 ELSE Complete(req'[p])]_vars

\* a location update without lat was answered 400 after a delivery was
\* created and accepted
C22_Witness ==
  \E p \in Procs :
     /\ req[p].op = "loc" /\ Done(p) /\ req[p].code = 400
     /\ delivery[1].exists /\ assignment[1].exists

\* the values nextId(s) has handed out
Allocated(s) == {returned[s][i] : i \in 1..Len(returned[s])}

\* C23: a rejected Accept consumes nothing.  An Accept answered "delivery
\* not found" or "already accepted" (the loser of a double accept included)
\* has taken no value from assi_seq: allocating the assi_id belongs to the
\* all-or-nothing unit that creates the Assignment.
C23_RejectedAcceptConsumesNothing ==
  [][\A p \in Procs :
       (req[p].op = "accept" /\ Answers(p)
          /\ req'[p].msg \in {"delivery not found", Conflict})
         => req[p].id \notin Allocated("assi_seq")]_vars

\* the handler of a running op request answers p with a business error
Refuses(p, op) ==
  /\ req[p].op = op /\ Answers(p)
  /\ req'[p].code # 200 /\ req'[p].msg # StoreErr

\* C24: an Accept refused because no Delivery record has its delivery_id is
\* answered 404, and one refused because the Delivery is not waiting is
\* answered 400; neither is answered 500 or with the other code.
C24_AcceptErrorKinds ==
  [][\A p \in Procs :
       Refuses(p, "accept") =>
         IF delivery[req[p].d].exists THEN req'[p].code = 400 ELSE req'[p].code = 404]_vars

\* C25: a Mark-transporting request of src/server.js that fails a business
\* precondition (Delivery missing or already transporting, finish or cancel,
\* Assignment not in accept) is answered with a 4xx code, never with 500.
C25_SrvTransportErrorKinds ==
  [][\A p \in Procs :
       Refuses(p, "srv_transport") => req'[p].code \in {400, 404, 409}]_vars

\* no "get" comes after a "write" in the sequence o
ReadsFirst(o) == \A i, j \in 1..Len(o) : (i < j /\ o[i] = "write") => o[j] # "get"

\* C26: in both transactional variants of the Mark-transporting handler
\* (part_004 and part_002), within one transaction attempt every read is
\* issued before the first write.
C26_ReadsPrecedeWrites ==
  \A p \in Procs :
     req[p].op \in {"transport", "transport002"} => ReadsFirst(req[p].ops)

InNextId(p) == req[p].op = "nextId" /\ ~Done(p)

C29_OverviewVariantsAgree ==
  \A p, q \in Procs :
     (/\ Done(p) /\ req[p].op = "srv_overview" /\ req[p].code = 200
      /\ Done(q) /\ req[q].op = "overview" /\ req[q].code = 200
      /\ req[p].r = req[q].r)
       => req[p].d = req[q].d

\* C30: a delete request that finds no Address is answered 404, one whose
\* user_id is not the stored user_id of the Address is answered 403, and
\* neither changes an Address; only the owner's request goes on to delete.
\* An Address disappears only in the step that answers 200 to a delete
\* request carrying its owner's user_id, and no Address is changed otherwise.
C30_OwnerOnlyDelete ==
  /\ [][\A p \in Procs :
         (req[p].pc = "ad_read" /\ req'[p] # req[p]) =>
            /\ addresses' = addresses
            /\ IF req[p].aid \notin DOMAIN addresses
               THEN req'[p].pc = "done" /\ req'[p].code = 404
               ELSE IF addresses[req[p].aid].user_id # req[p].uid
               THEN req'[p].pc = "done" /\ req'[p].code = 403
               ELSE req'[p].pc # "done"]_vars
  /\ [][\A a \in DOMAIN addresses :
         (a \notin DOMAIN addresses' \/ addresses'[a] # addresses[a]) =>
            \E p \in Procs :
               /\ req[p].op = "address_delete" /\ Answers(p) /\ req'[p].code = 200
               /\ req[p].aid = a /\ req[p].uid = addresses[a].user_id]_vars

\* user 1 deleted address 1, and user 1's request to delete address 2 of
\* user 2 was answered 403 and left it in place
C30_Witness ==
  \E p, q \in Procs :
     /\ Done(p) /\ req[p].op = "address_delete" /\ req[p].code = 200
     /\ req[p].uid = 1 /\ req[p].aid = 1 /\ 1 \notin DOMAIN addresses
     /\ Done(q) /\ req[q].op = "address_delete" /\ req[q].code = 403
     /\ req[q].uid = 1 /\ req[q].aid = 2 /\ 2 \in DOMAIN addresses

\* the references of a create body that no stored record answers: 1 the
\* sender, 2 the receiver, 3 the sender's address, 4 the receiver's address
MissingRefs(b) ==
  {i \in 1..4 : IF i <= 2 THEN b[i] \notin DOMAIN users ELSE b[i] \notin DOMAIN addresses}

\* the create request of slot p was answered 404 with exactly one reference
\* missing
OneMissing(p) ==
  /\ Done(p) /\ req[p].op = "create" /\ req[p].code = 404
  /\ Cardinality(MissingRefs(req[p].body)) = 1

\* C31: when a create fails because exactly one of its four references is
\* missing, the error tells which: two such answers for different missing
\* references carry different errors.
C31_CreateErrorNamesReference ==
  \A p, q \in Procs :
     (OneMissing(p) /\ OneMissing(q) /\ MissingRefs(req[p].body) # MissingRefs(req[q].body))
       => req[p].msg # req[q].msg

\* C32: the order of the assi_id is the order of acceptance: when an
\* Assignment is committed, every Assignment already stored has a smaller
\* assi_id, also when Accept requests overlap.
C32_AssiIdOrder ==
  [][\A a \in AssiIds :
       (~assignment[a].exists /\ assignment'[a].exists) =>
          \A b \in AssiIds : assignment[b].exists => b < a]_vars

\* C33: of the Mark-finish requests on one delivery at most one is answered
\* with success, and the picture_status3 of an Assignment in finish is not
\* written again.
C33_ConcurrentFinish ==
  [][/\ \A p \in Procs :
          (req[p].op = "finish" /\ Answers(p) /\ req'[p].code = 200) =>
             \A q \in Procs \ {p} :
                ~(Done(q) /\ req[q].op = "finish" /\ req[q].code = 200
                    /\ req[q].d = req[p].d)
     /\ \A a \in AssiIds :
          (assignment[a].exists /\ assignment[a].status = "finish") =>
             assignment'[a].picture_status3 = assignment[a].picture_status3]_vars

\* C34: every delivery whose status is accept, transporting or finish is
\* referenced by at least one assignment.
C34_ProgressedHasAssignment ==
  \A d \in DeliveryIds :
     (delivery[d].exists /\ delivery[d].status \in {"accept", "transporting", "finish"})
       => Referencing(d) # {}

\* C35: the sender and the receiver address of every stored delivery are
\* stored addresses, in every reachable state, however creates and address
\* deletions interleave.
C35_ReferencesPersist ==
  \A d \in DeliveryIds :
     delivery[d].exists =>
        /\ delivery[d].address_id_sender \in DOMAIN addresses
        /\ delivery[d].address_id_receiver \in DOMAIN addresses

\* C36: a POST /register/rider request that answered with an error left
\* nothing behind: no user and no rider car of its own, and user_seq never
\* returned a value to it.
C36_RiderRegistrationAllOrNothing ==
  \A p \in Procs :
     (Done(p) /\ req[p].op = "register_rider" /\ req[p].code # 201) =>
        /\ req[p].uid \notin DOMAIN users
        /\ \A c \in DOMAIN riderCar : riderCar[c].user_id # req[p].uid
        /\ req[p].uid \notin Allocated("user_seq")

TypeOK ==
  /\ \A s \in SeqNames : counters[s].value \in 0..SeqCap(s)
  /\ \A p \in Procs : req[p].tries < MaxAttempts

====
